---- MODULE Spec2Model ----
(***************************************************************************)
(* Wolfstar CDN worker (Cloudflare Workers + R2): the edge delivery        *)
(* pipeline of the Hono application: rate limiting middleware, cache       *)
(* middleware, asset route, fetchFromR2, serveTransformedImage, and the    *)
(* pure helpers parseRangeHeader / parseTransformations.                   *)
(*                                                                         *)
(* Strings that the code parses (paths, Range header values, numeric query *)
(* values) are sequences of one-character strings, so that parsing is      *)
(* computed and not assumed.  A header that is absent is the empty         *)
(* sequence / empty string: every use in the code is a truthiness test     *)
(* (`if (range)`, `if (rangeHeader)`), which cannot tell the two apart.    *)
(***************************************************************************)
EXTENDS Integers, Sequences, FiniteSets, TLC

\* ------------------------------------------------------------------ bounds

\* Largest object size (bytes) the store holds; Range headers name positions up
\* to one beyond it.
MaxSize == 9

\* ------------------------------------------------------------- text helpers

DigitChars == <<"0", "1", "2", "3", "4", "5", "6", "7", "8", "9">>

IsDigit(c) == \E d \in 1..10 : DigitChars[d] = c

DigitVal(c) == (CHOOSE d \in 1..10 : DigitChars[d] = c) - 1

\* Decimal rendering of a natural number, as `${n}` does.
RECURSIVE Digits(_)
Digits(n) == IF n < 10 THEN <<DigitChars[n + 1]>>
             ELSE Digits(n \div 10) \o <<DigitChars[(n % 10) + 1]>>

\* Value of a sequence of digit characters.
RECURSIVE DigitsVal(_)
DigitsVal(s) == IF s = <<>> THEN 0
                ELSE 10 * DigitsVal(SubSeq(s, 1, Len(s) - 1)) + DigitVal(s[Len(s)])

\* Longest prefix of s made of digits.
RECURSIVE DigitPrefix(_)
DigitPrefix(s) == IF s = <<>> \/ ~IsDigit(Head(s)) THEN <<>>
                  ELSE <<Head(s)>> \o DigitPrefix(Tail(s))

\* A JavaScript number as far as the code looks at it: NaN, or an integer.
NaN == [nan |-> TRUE, val |-> 0]

Num(n) == [nan |-> FALSE, val |-> n]

RECURSIVE SkipSpaces(_)
SkipSpaces(s) == IF s # <<>> /\ Head(s) = " " THEN SkipSpaces(Tail(s)) ELSE s

\* parseInt(s, 10): leading white space skipped, optional sign, then the longest
\* run of digits; anything after it is ignored; NaN when there is no digit.
parseInt(s) ==
    LET t    == SkipSpaces(s)
        neg  == t # <<>> /\ Head(t) = "-"
        u    == IF t # <<>> /\ Head(t) \in {"-", "+"} THEN Tail(t) ELSE t
        d    == DigitPrefix(u)
    IN  IF d = <<>> THEN NaN
        ELSE IF neg THEN Num(0 - DigitsVal(d)) ELSE Num(DigitsVal(d))

UpperChars == <<"A", "B", "C", "D", "E", "F", "G", "H", "I", "J", "K", "L", "M",
                "N", "O", "P", "Q", "R", "S", "T", "U", "V", "W", "X", "Y", "Z">>
LowerChars == <<"a", "b", "c", "d", "e", "f", "g", "h", "i", "j", "k", "l", "m",
                "n", "o", "p", "q", "r", "s", "t", "u", "v", "w", "x", "y", "z">>

LowerChar(c) == IF \E k \in 1..26 : UpperChars[k] = c
                THEN LowerChars[CHOOSE k \in 1..26 : UpperChars[k] = c]
                ELSE c

\* String.prototype.toLowerCase
toLowerCase(s) == [k \in 1..Len(s) |-> LowerChar(s[k])]

\* Index of the last occurrence of character c in s, 0 when there is none.
LastIndexOf(s, c) == IF \E k \in 1..Len(s) : s[k] = c
                     THEN CHOOSE k \in 1..Len(s) : s[k] = c /\ \A j \in (k+1)..Len(s) : s[j] # c
                     ELSE 0

\* ---------------------------------------------------------------- constants

IMAGE_EXTENSIONS == { <<"j","p","g">>, <<"j","p","e","g">>, <<"p","n","g">>, <<"g","i","f">>,
                      <<"w","e","b","p">>, <<"s","v","g">>, <<"t","i","f","f">>, <<"a","v","i","f">> }
ALLOWED_FIT_MODES == { <<"s","c","a","l","e","-","d","o","w","n">>, <<"c","o","n","t","a","i","n">>,
                       <<"c","o","v","e","r">>, <<"c","r","o","p">>, <<"p","a","d">> }
ALLOWED_FORMATS == { <<"w","e","b","p">>, <<"a","v","i","f">>, <<"j","p","e","g">>,
                     <<"p","n","g">>, <<"j","s","o","n">> }
MAX_IMAGE_DIMENSION == 4096
MIN_IMAGE_DIMENSION == 1
MAX_QUALITY == 100
MIN_QUALITY == 1
DEFAULT_QUALITY == 85

\* ------------------------------------------------------------------ helpers

\* pathname.split('.').pop()?.toLowerCase() ?? ''
getFileExtension(pathname) ==
    toLowerCase(SubSeq(pathname, LastIndexOf(pathname, ".") + 1, Len(pathname)))

normalizeObjectKey(pathname) ==
    IF pathname # <<>> /\ Head(pathname) = "/" THEN Tail(pathname) ELSE pathname

\* Number.isInteger(value) && value >= MIN && value <= MAX (parseInt yields NaN or an integer)
validateImageDimension(value) ==
    ~value.nan /\ value.val >= MIN_IMAGE_DIMENSION /\ value.val <= MAX_IMAGE_DIMENSION

validateImageQuality(value) ==
    ~value.nan /\ value.val >= MIN_QUALITY /\ value.val <= MAX_QUALITY

TransformParams == {"w", "h", "q", "fit", "f"}

\* searchParams.get(p): the raw value, or the empty sequence (falsy, like null)
GetParam(query, p) == IF p \in DOMAIN query THEN query[p] ELSE <<>>

\* An option object is a function from the keys that are set to their values;
\* {} is the function with the empty domain.
NoOptions == <<>>

\* Object.keys(options).length > 0
HasKeys(options) == DOMAIN options # {}

\* { ...DEFAULT_TRANSFORM_OPTIONS }
DEFAULT_TRANSFORM_OPTIONS == "quality" :> DEFAULT_QUALITY

\* options[k] = v when cond holds, options unchanged otherwise
SetIf(options, cond, k, v) == IF cond THEN (k :> v) @@ options ELSE options

parseTransformations(query) ==
    IF DOMAIN query \cap TransformParams = {} THEN NoOptions
    ELSE LET widthParam   == GetParam(query, "w")
             heightParam  == GetParam(query, "h")
             qualityParam == GetParam(query, "q")
             fitParam     == GetParam(query, "fit")
             formatParam  == toLowerCase(GetParam(query, "f"))
             o0 == DEFAULT_TRANSFORM_OPTIONS
             o1 == SetIf(o0, widthParam # <<>> /\ validateImageDimension(parseInt(widthParam)),
                         "width", parseInt(widthParam).val)
             o2 == SetIf(o1, heightParam # <<>> /\ validateImageDimension(parseInt(heightParam)),
                         "height", parseInt(heightParam).val)
             o3 == SetIf(o2, qualityParam # <<>> /\ validateImageQuality(parseInt(qualityParam)),
                         "quality", parseInt(qualityParam).val)
             o4 == SetIf(o3, fitParam # <<>> /\ fitParam \in ALLOWED_FIT_MODES, "fit", fitParam)
             o5 == SetIf(o4, formatParam # <<>> /\ formatParam \in ALLOWED_FORMATS,
                         "format", formatParam)
         IN  o5

\* ------------------------------------------ resolver of utils.ts (constants.ts)

\* Mutant: json among the allowed formats.
ALLOWED_FORMATS_withJson == { <<"w","e","b","p">>, <<"a","v","i","f">>, <<"j","p","e","g">>,
                              <<"p","n","g">>, <<"j","s","o","n">> }

\* constants.ts: ALLOWED_FORMATS, without json
ALLOWED_FORMATS_constants == { <<"w","e","b","p">>, <<"a","v","i","f">>, <<"j","p","e","g">>,
                               <<"p","n","g">> }

\* What parseTransformations(pathname, searchParams) of utils.ts returns: null, or
\* an option object.
NullOptions == [isNull |-> TRUE, options |-> NoOptions]

SomeOptions(o) == [isNull |-> FALSE, options |-> o]

\* Mutant: the file extension is not looked at.
ResolvableAnyPath(pathname, searchParams) == DOMAIN searchParams \cap TransformParams # {}

\* hasTransformationParams && isImage: whether utils.ts resolves the query at all.
Resolvable(pathname, searchParams) ==
    /\ DOMAIN searchParams \cap TransformParams # {}
    /\ getFileExtension(pathname) \in IMAGE_EXTENSIONS

\* The five validations of utils.ts, each on the options so far.
WithWidth(o, searchParams) ==
    LET widthParam == GetParam(searchParams, "w") IN
    SetIf(o, widthParam # <<>> /\ validateImageDimension(parseInt(widthParam)),
          "width", parseInt(widthParam).val)

\* Mutant: the height is only looked at when the width was accepted.
WithHeightAfterWidth(o, searchParams) ==
    LET heightParam == GetParam(searchParams, "h") IN
    SetIf(o, /\ "width" \in DOMAIN o
             /\ heightParam # <<>> /\ validateImageDimension(parseInt(heightParam)),
          "height", parseInt(heightParam).val)

WithHeight(o, searchParams) ==
    LET heightParam == GetParam(searchParams, "h") IN
    SetIf(o, heightParam # <<>> /\ validateImageDimension(parseInt(heightParam)),
          "height", parseInt(heightParam).val)

WithQuality(o, searchParams) ==
    LET qualityParam == GetParam(searchParams, "q") IN
    SetIf(o, qualityParam # <<>> /\ validateImageQuality(parseInt(qualityParam)),
          "quality", parseInt(qualityParam).val)

WithFit(o, searchParams) ==
    LET fitParam == GetParam(searchParams, "fit") IN
    SetIf(o, fitParam # <<>> /\ fitParam \in ALLOWED_FIT_MODES, "fit", fitParam)

WithFormat(o, searchParams) ==
    LET formatParam == toLowerCase(GetParam(searchParams, "f")) IN
    SetIf(o, formatParam # <<>> /\ formatParam \in ALLOWED_FORMATS_constants,
          "format", formatParam)

\* The options object utils.ts builds: the defaults, then the five validations.
ResolvedOptions(searchParams) ==
    WithFormat(WithFit(WithQuality(WithHeight(WithWidth(DEFAULT_TRANSFORM_OPTIONS,
        searchParams), searchParams), searchParams), searchParams), searchParams)

\* Mutant: no exception for a lone unsupported format.
OnlyUnsupportedFormatNever(searchParams) == FALSE

\* else if (formatParam) { if (!hasOtherValidParams) return null }: a format
\* that is not allowed is the only parameter name present.
OnlyUnsupportedFormat(searchParams) ==
    LET formatParam == toLowerCase(GetParam(searchParams, "f")) IN
    /\ formatParam # <<>>
    /\ formatParam \notin ALLOWED_FORMATS_constants
    /\ DOMAIN searchParams \cap {"w", "h", "q", "fit"} = {}

\* parseTransformations(pathname, searchParams) of utils.ts.
parseTransformationsUtils(pathname, searchParams) ==
    IF ~Resolvable(pathname, searchParams) THEN NullOptions
    ELSE IF OnlyUnsupportedFormat(searchParams) THEN NullOptions
    ELSE SomeOptions(ResolvedOptions(searchParams))

\* fetchFromR2 of utils.ts: cfOptions ? Object.keys(cfOptions).length > 0 : false
hasTransformations(cfOptions) == ~cfOptions.isNull /\ HasKeys(cfOptions.options)

\* ------------------------------------------------------------- Range header

BytesEq == <<"b", "y", "t", "e", "s", "=">>

\* An R2Range {offset, length?}; defined = FALSE is `undefined`.
NoRange == [defined |-> FALSE, offset |-> 0, hasLength |-> FALSE, length |-> 0]

\* rangeHeader.match(/^bytes=(\d+)-(\d*)$/): whether it matches, and the groups.
MatchRange(rangeHeader) ==
    IF Len(rangeHeader) <= Len(BytesEq) \/ SubSeq(rangeHeader, 1, Len(BytesEq)) # BytesEq
    THEN [match |-> FALSE, m1 |-> <<>>, m2 |-> <<>>]
    ELSE LET rest  == SubSeq(rangeHeader, Len(BytesEq) + 1, Len(rangeHeader))
             m1    == DigitPrefix(rest)
             after == SubSeq(rest, Len(m1) + 1, Len(rest))
             m2    == IF after = <<>> THEN <<>> ELSE Tail(after)
         IN  [match |-> /\ m1 # <<>>
                        /\ after # <<>> /\ Head(after) = "-"
                        /\ \A k \in 1..Len(m2) : IsDigit(m2[k]),
              m1 |-> m1, m2 |-> m2]

\* Mutant: the length of a closed range computed as end - start.
parseRangeHeaderShort(rangeHeader) ==
    LET m == MatchRange(rangeHeader)
        start == parseInt(m.m1)
        hasEnd == m.m2 # <<>>
        end == parseInt(m.m2)
    IN  IF ~m.match THEN NoRange
        ELSE IF start.nan \/ (hasEnd /\ end.nan) THEN NoRange
        ELSE IF hasEnd /\ start.val > end.val THEN NoRange
        ELSE [defined |-> TRUE, offset |-> start.val, hasLength |-> hasEnd,
              length |-> IF hasEnd THEN end.val - start.val ELSE 0]

\* Mutant: the check start > end left out.
parseRangeHeaderUnordered(rangeHeader) ==
    LET m == MatchRange(rangeHeader)
        start == parseInt(m.m1)
        hasEnd == m.m2 # <<>>
        end == parseInt(m.m2)
    IN  IF ~m.match THEN NoRange
        ELSE IF start.nan \/ (hasEnd /\ end.nan) THEN NoRange
        ELSE [defined |-> TRUE, offset |-> start.val, hasLength |-> hasEnd,
              length |-> IF hasEnd THEN end.val - start.val + 1 ELSE 0]

\* parseRangeHeader: the match, then the two numeric checks.
parseRangeHeader(rangeHeader) ==
    LET m == MatchRange(rangeHeader)
        start == parseInt(m.m1)
        hasEnd == m.m2 # <<>>
        end == parseInt(m.m2)
    IN  IF ~m.match THEN NoRange
        ELSE IF start.nan \/ (hasEnd /\ end.nan) THEN NoRange
        ELSE IF hasEnd /\ start.val > end.val THEN NoRange
        ELSE [defined |-> TRUE, offset |-> start.val, hasLength |-> hasEnd,
              length |-> IF hasEnd THEN end.val - start.val + 1 ELSE 0]

\* ---------------------------------------------------------------- responses

\* A Response as far as a client can see it.  A header that is not set is "".
\* bodyKind: "null" (no body), "bytes" (object bytes, in body), "json" (the error
\* envelope {error, message, timestamp}: error and message), "text" (plain text, in message).
BaseResponse ==
    [ status |-> 200, bodyKind |-> "null", body |-> <<>>, error |-> "", message |-> "",
      contentType |-> "", etag |-> <<>>, acceptRanges |-> "", cacheControl |-> "",
      contentRange |-> <<>>, transformStatus |-> "", cacheStatus |-> "", cf |-> <<>> ]

\* Response.ok
Ok(r) == r.status >= 200 /\ r.status <= 299

createErrorResponse(error, message, status) ==
    [ BaseResponse EXCEPT !.status = status, !.bodyKind = "json", !.error = error,
                          !.message = message, !.contentType = "application/json",
                          !.cacheControl = "no-store" ]

\* new Response('Not Found', { status: 404 })
NotFoundText == [ BaseResponse EXCEPT !.status = 404, !.bodyKind = "text", !.message = "Not Found",
                                      !.contentType = "text/plain" ]

IMMUTABLE == "public, max-age=31536000, immutable"

\* ------------------------------------------------------------- object store

\* The R2 bucket: a function from the keys it holds to the objects.
\* An object: size, body (the bytes), httpEtag (quoted), etag (bare), contentType.
Quote == "\""

ObjectOf(key, bytes) ==
    [ size |-> Len(bytes), body |-> bytes, etag |-> key, httpEtag |-> <<Quote>> \o key \o <<Quote>>,
      contentType |-> "application/octet-stream" ]

\* What one call of the bucket can answer.  head(key): it throws, or null, or the
\* object's metadata.  get(key, {range}): it throws, or null, or the object with
\* the bytes of the range and the range it served (rangeShape: "none" without a
\* range, "offset+length", "offset", as R2Range allows).  A range that starts at
\* or after the end of the object cannot be served: the call throws.  A range
\* that reaches beyond the end is cut at the end; the served range may be
\* reported as asked or as cut.  text is the message of the exception thrown.
Throw == [kind |-> "throw", size |-> 0, body |-> <<>>, etag |-> <<>>, httpEtag |-> <<>>,
          contentType |-> "", rangeShape |-> "none", offset |-> 0, length |-> 0,
          text |-> "Network connection lost"]

\* The call throws an exception with the given message.
Thrown(text) == [Throw EXCEPT !.text = text]

Null == [Throw EXCEPT !.kind = "null", !.text = ""]

Found(obj, bytes, shape, offset, length) ==
    [kind |-> "object", size |-> obj.size, body |-> bytes, etag |-> obj.etag,
     httpEtag |-> obj.httpEtag, contentType |-> obj.contentType, rangeShape |-> shape,
     offset |-> offset, length |-> length, text |-> ""]

Min(a, b) == IF a < b THEN a ELSE b

\* The bytes of obj from position offset (0-based), at most length of them.
Slice(obj, offset, length) == SubSeq(obj.body, offset + 1, Min(obj.size, offset + length))

R2Head(bucket, key) ==
    {Throw} \cup (IF key \in DOMAIN bucket
                  THEN {Found(bucket[key], <<>>, "none", 0, 0)} ELSE {Null})

R2Get(bucket, key, range) ==
    {Throw} \cup
    (IF key \notin DOMAIN bucket THEN {Null}
     ELSE LET obj == bucket[key] IN
          IF ~range.defined THEN {Found(obj, obj.body, "none", 0, 0)}
          ELSE IF range.offset >= obj.size THEN {}
          ELSE IF range.hasLength
               THEN { Found(obj, Slice(obj, range.offset, range.length), "offset+length",
                            range.offset, len) :
                      len \in {range.length, Min(range.length, obj.size - range.offset)} }
               ELSE { Found(obj, Slice(obj, range.offset, obj.size), "offset+length",
                            range.offset, obj.size - range.offset),
                      Found(obj, Slice(obj, range.offset, obj.size), "offset", range.offset, 0) })

\* isR2ObjectBody(object): null fails the guard, an R2ObjectBody passes it.
isR2ObjectBody(object) == object.kind = "object"

\* ------------------------------------------------------------- fetchFromR2

\* Mutant: the HEAD branch sets the bare etag, not httpEtag.
HeadResponseBareEtag(headObj) ==
    [ BaseResponse EXCEPT !.contentType = headObj.contentType, !.etag = headObj.etag,
                          !.acceptRanges = "bytes", !.cacheControl = IMMUTABLE ]

\* The HEAD branch: new Response(null, { headers }) with the headers of headObj.
HeadResponse(headObj) ==
    [ BaseResponse EXCEPT !.contentType = headObj.contentType, !.etag = headObj.httpEtag,
                          !.acceptRanges = "bytes", !.cacheControl = IMMUTABLE ]

\* The headers the GET branch sets from the object's metadata.
MetadataHeaders(object) ==
    [ BaseResponse EXCEPT !.contentType = object.contentType, !.etag = object.httpEtag,
                          !.acceptRanges = "bytes", !.cacheControl = IMMUTABLE ]

\* Mutant: the end of an offset-only range taken as the size of the object.
PartialResponseEndAtSize(object, headers) ==
    LET start == IF object.rangeShape = "suffix" THEN object.size - object.length
                 ELSE object.offset
        end   == IF object.rangeShape = "offset+length" THEN start + object.length - 1
                 ELSE object.size
    IN  IF object.rangeShape \in {"offset+length", "offset", "suffix"}
        THEN [ headers EXCEPT !.status = 206, !.bodyKind = "bytes", !.body = object.body,
                              !.contentRange = <<start, end, object.size>> ]
        ELSE [ headers EXCEPT !.bodyKind = "bytes", !.body = object.body ]

\* if (range && object.range) { ... }: the Content-Range framing of a served range.
\* <<start, end, size>> stands for `bytes ${start}-${end}/${object.size}`.
PartialResponse(object, headers) ==
    LET start == IF object.rangeShape = "suffix" THEN object.size - object.length
                 ELSE object.offset
        end   == IF object.rangeShape = "offset+length" THEN start + object.length - 1
                 ELSE object.size - 1
    IN  IF object.rangeShape \in {"offset+length", "offset", "suffix"}
        THEN [ headers EXCEPT !.status = 206, !.bodyKind = "bytes", !.body = object.body,
                              !.contentRange = <<start, end, object.size>> ]
        ELSE [ headers EXCEPT !.bodyKind = "bytes", !.body = object.body ]

\* Mutant: the Range header is parsed whether or not there are options.
FetchRangeIgnoresOptions(cfOptions, rangeHeader) ==
    IF rangeHeader # <<>> THEN parseRangeHeader(rangeHeader) ELSE NoRange

\* The range fetchFromR2 gives to bucket.get:
\* if (rangeHeader && !hasTransformations) range = parseRangeHeader(rangeHeader)
FetchRange(cfOptions, rangeHeader) ==
    IF rangeHeader # <<>> /\ ~HasKeys(cfOptions) THEN parseRangeHeader(rangeHeader) ELSE NoRange

\* Mutant: a fault of the bucket reported under another error code.
StorageErrorInternal == createErrorResponse("INTERNAL_ERROR", "An unexpected error occurred", 500)

StorageError == createErrorResponse("STORAGE_ERROR", "Unable to retrieve file from storage", 500)

\* Mutant: fetchFromR2 without its catch, so that the exception of the bucket
\* reaches the catch of the route, which puts error.message in the response.
fetchFromR2Uncaught(cfOptions, isHeadRequest, rangeHeader, answer) ==
    IF answer.kind = "throw" THEN createErrorResponse("REQUEST_ERROR", answer.text, 500)
    ELSE IF isHeadRequest
    THEN IF answer.kind = "null" THEN NotFoundText ELSE HeadResponse(answer)
    ELSE IF ~isR2ObjectBody(answer) THEN NotFoundText
    ELSE IF FetchRange(cfOptions, rangeHeader).defined /\ answer.rangeShape # "none"
    THEN PartialResponse(answer, MetadataHeaders(answer))
    ELSE [ MetadataHeaders(answer) EXCEPT !.bodyKind = "bytes", !.body = answer.body,
                                          !.cf = cfOptions ]

\* fetchFromR2(pathname, cfOptions, env, isHeadRequest, rangeHeader), given what
\* the single bucket call it makes answered.
fetchFromR2(cfOptions, isHeadRequest, rangeHeader, answer) ==
    IF answer.kind = "throw" THEN StorageError
    ELSE IF isHeadRequest
    THEN IF answer.kind = "null" THEN NotFoundText ELSE HeadResponse(answer)
    ELSE IF ~isR2ObjectBody(answer) THEN NotFoundText
    ELSE IF FetchRange(cfOptions, rangeHeader).defined /\ answer.rangeShape # "none"
    THEN PartialResponse(answer, MetadataHeaders(answer))
    ELSE [ MetadataHeaders(answer) EXCEPT !.bodyKind = "bytes", !.body = answer.body,
                                          !.cf = cfOptions ]

\* The bucket call fetchFromR2 makes, and the answers it can get.
BucketAnswers(bucket, pathname, cfOptions, isHeadRequest, rangeHeader) ==
    IF isHeadRequest THEN R2Head(bucket, normalizeObjectKey(pathname))
    ELSE R2Get(bucket, normalizeObjectKey(pathname), FetchRange(cfOptions, rangeHeader))

\* ------------------------------------------------------------------ requests

APng == <<"/", "a", ".", "p", "n", "g">>
BTxt == <<"/", "b", ".", "t", "x", "t">>

\* Range header values: Range: bytes=<s>-<e> and bytes=<s>-
RangeClosed(s, e) == BytesEq \o Digits(s) \o <<"-">> \o Digits(e)
RangeOpen(s) == BytesEq \o Digits(s) \o <<"-">>

\* A request: method, URL (path and query parameters), and the headers the
\* pipeline reads: Range, Accept-Encoding and the client address
\* (cf-connecting-ip), which the rate limiter alone looks at.
Request(method, path, query, range, encoding, ip) ==
    [method |-> method, path |-> path, query |-> query, range |-> range,
     encoding |-> encoding, ip |-> ip]

NoRequest == Request("", <<>>, <<>>, <<>>, "", "")

W2 == "w" :> <<"2">>

ClientIp == "203.0.113.7"

\* The requests of the pipeline specification: every method, query and Range
\* combination on the image path, each with no further header, with
\* Accept-Encoding, or with a client address; and the plain requests on the
\* other path.
Requests ==
    { Request(m, APng, q, r, h[1], h[2]) :
        m \in {"GET", "HEAD"}, q \in {<<>>, W2}, r \in {<<>>, RangeClosed(0, 1)},
        h \in {<<"", "">>, <<"gzip", "">>, <<"", ClientIp>>} }
    \cup
    { Request(m, BTxt, <<>>, r, "", "") : m \in {"GET", "HEAD"}, r \in {<<>>, RangeClosed(0, 1)} }

\* The bytes of the object under key k when it has n bytes.
Bytes(k, n) == [j \in 1..n |-> 10 * Len(k) + j]

Keys == {normalizeObjectKey(APng), normalizeObjectKey(BTxt)}

\* The buckets of the pipeline specification: the objects are there, or the
\* bucket is empty.
Buckets == { [k \in K |-> ObjectOf(k, Bytes(k, MaxSize))] : K \in {Keys, {}} }

\* Range header values that are not of the form bytes=<start>-<end>?
Malformed ==
    { BytesEq \o <<"a", "b", "c">>,                       \* bytes=abc
      BytesEq \o <<"-", "2">>,                            \* bytes=-2 (suffix length)
      BytesEq \o <<"0", "-", "1", ",", "3", "-", "4">>,    \* bytes=0-1,3-4 (multi-range)
      BytesEq \o <<"0", "-", "1", "x">>,                   \* bytes=0-1x
      BytesEq \o <<"-">>,                                 \* bytes=-
      BytesEq,                                            \* bytes=
      <<"i", "t", "e", "m", "s", "=", "0", "-", "1">>,    \* items=0-1
      <<" ">> \o BytesEq \o <<"0", "-", "1">>,             \* leading blank
      <<"0", "-", "1">> }                                 \* 0-1

\* The requests of the range specification: one GET or HEAD on either path, with
\* or without a transform parameter, with any Range header over positions
\* 0..MaxSize+1, well formed or not.
RangeHeaders ==
    {<<>>} \cup Malformed
    \cup { RangeClosed(a, b) : a \in 0..(MaxSize + 1), b \in 0..(MaxSize + 1) }
    \cup { RangeOpen(a) : a \in 0..(MaxSize + 1) }

RangeRequests ==
    { Request(m, p, q, r, "", "") :
        m \in {"GET", "HEAD"}, p \in {APng, BTxt}, q \in {<<>>, W2}, r \in RangeHeaders }

\* The buckets of the range specification: objects of every size up to MaxSize.
RangeBuckets ==
    { [k \in Keys |-> ObjectOf(k, Bytes(k, n))] : n \in 0..MaxSize } \cup {<<>>}

\* --------------------------------------------------------------------- state

\* The request tasks: a first and a second request, which may overlap at every
\* await.  Each task serves one request.
Tasks == {1, 2}

VARIABLES
    bucket,     \* the R2 bucket (env.wolfstar_cdn); the worker never writes to it
    cache,      \* caches.default: cache key -> [res: stored response, by: the request that stored it]
    pending,    \* background cache writes handed to executionCtx.waitUntil
    pc,         \* per task: where the request is in the middleware chain
    req,        \* per task: the request
    res,        \* per task: c.res, the response that goes to the client
    mw,         \* per task: "try" or "catch", the branch of the cache middleware that called next()
    attempt,    \* per task: the fetchFromR2 call that is due: "plain", "transformed", "fallback"
    options,    \* per task: transformOptions of the route
    hitFrom,    \* per task: the request whose stored response was served as a hit
    prior,      \* per task: the tasks whose response had been returned when the request arrived
    log         \* per task: the calls made for the request, in order

vars == <<bucket, cache, pending, pc, req, res, mw, attempt, options, hitFrom, prior, log>>

\* A call recorded in log: "limit" (rate limiter), "match" (cache), "route" (the
\* asset route is entered), "head" and "get" (bucket, with the options and range
\* of the fetchFromR2 call), "waitUntil" (a cache write is handed over);
\* answer: "throw", "null", "object" for a bucket call, the outcome otherwise;
\* text: the message of the exception a bucket call threw.
Call(op, cfOptions, range, answer) ==
    [op |-> op, options |-> cfOptions, range |-> range, answer |-> answer, text |-> ""]

InitWith(B) ==
    /\ bucket \in B
    /\ cache = <<>>
    /\ pending = {}
    /\ pc = [i \in Tasks |-> "idle"]
    /\ req = [i \in Tasks |-> NoRequest]
    /\ res = [i \in Tasks |-> BaseResponse]
    /\ mw = [i \in Tasks |-> "try"]
    /\ attempt = [i \in Tasks |-> "plain"]
    /\ options = [i \in Tasks |-> NoOptions]
    /\ hitFrom = [i \in Tasks |-> NoRequest]
    /\ prior = [i \in Tasks |-> {}]
    /\ log = [i \in Tasks |-> <<>>]

Init == InitWith(Buckets)

InitRange == InitWith(RangeBuckets)

\* ---------------------------------------------------------------- operations

\* A request arrives and enters the middleware chain.  Tasks are taken in order.
Receive(i, R) ==
    /\ pc[i] = "idle"
    /\ \A j \in 1..(i - 1) : pc[j] # "idle"
    /\ \E r \in R :
         /\ req' = [req EXCEPT ![i] = r]
         /\ pc' = [pc EXCEPT ![i] = "ratelimit"]
    /\ prior' = [prior EXCEPT ![i] = {j \in Tasks : pc[j] = "done"}]
    /\ UNCHANGED <<bucket, cache, pending, res, mw, attempt, options, hitFrom, log>>

\* Mutant: a limiter that throws counts as a refusal.
handleRateLimitFailClosed(verdict) == verdict = "success"

\* handleRateLimit: the limiter's verdict, true when the call throws.
handleRateLimit(verdict) == IF verdict = "throw" THEN TRUE ELSE verdict = "success"

\* The rate limiting middleware.  Without a client address the limiter is not
\* asked (as without a RATE_LIMITER binding).
RateLimit(i) ==
    /\ pc[i] = "ratelimit"
    /\ \E verdict \in (IF req[i].ip = "" THEN {"skip"} ELSE {"success", "failure", "throw"}) :
         LET isAllowed == verdict = "skip" \/ handleRateLimit(verdict) IN
         /\ log' = [log EXCEPT ![i] = IF verdict = "skip" THEN @
                                      ELSE Append(@, Call("limit", NoOptions, NoRange, verdict))]
         /\ IF isAllowed
            THEN pc' = [pc EXCEPT ![i] = "cache"] /\ res' = res
            ELSE /\ pc' = [pc EXCEPT ![i] = "done"]
                 /\ res' = [res EXCEPT ![i] = createErrorResponse("RATE_LIMITED", "Too many requests", 429)]
    /\ UNCHANGED <<bucket, cache, pending, req, mw, attempt, options, hitFrom, prior>>

\* Mutant: the key without the accept-encoding header.
cacheKeyNoEncoding(r) == [path |-> r.path, query |-> r.query, range |-> r.range, encoding |-> ""]

\* new Request(url.toString(), { headers: cacheKeyHeaders }): the URL, and the
\* range and accept-encoding headers when the request has them.
cacheKey(r) == [path |-> r.path, query |-> r.query, range |-> r.range, encoding |-> r.encoding]

\* Mutant: the stored response returned as it is, tag included.
HitResponseUntagged(cachedResponse) == cachedResponse

\* new Response(cachedResponse.body, cachedResponse) with X-Cache-Status: HIT
HitResponse(cachedResponse) == [cachedResponse EXCEPT !.cacheStatus = "HIT"]

HealthPath == <<"/", "h", "e", "a", "l", "t", "h">>

\* Mutant: no path is kept out of the cache.
SkipsCacheNever(r) == FALSE

\* if (c.req.path === '/health') return next();
SkipsCache(r) == r.path = HealthPath

\* The cache middleware up to `await next()`: a request for /health goes on to
\* its route at once (mw "bypass": nothing follows next()).  Otherwise
\* cache.match(cacheKey); a hit is returned tagged HIT, a miss goes on to the
\* route, and so does a match that throws (the catch branch calls next()).
CacheLookup(i) ==
    /\ pc[i] = "cache"
    /\ \E outcome \in (IF SkipsCache(req[i]) THEN {"bypass"} ELSE {"answer", "throw"}) :
         LET hit == outcome = "answer" /\ cacheKey(req[i]) \in DOMAIN cache IN
         /\ log' = [log EXCEPT ![i] =
                      IF outcome = "bypass" THEN @
                      ELSE Append(@, Call("match", NoOptions, NoRange,
                                          IF outcome = "throw" THEN "throw"
                                          ELSE IF hit THEN "hit" ELSE "miss"))]
         /\ IF hit
            THEN /\ res' = [res EXCEPT ![i] = HitResponse(cache[cacheKey(req[i])].res)]
                 /\ hitFrom' = [hitFrom EXCEPT ![i] = cache[cacheKey(req[i])].by]
                 /\ pc' = [pc EXCEPT ![i] = "done"]
                 /\ mw' = mw
            ELSE /\ mw' = [mw EXCEPT ![i] = IF outcome = "bypass" THEN "bypass"
                                            ELSE IF outcome = "throw" THEN "catch" ELSE "try"]
                 /\ pc' = [pc EXCEPT ![i] = "route"]
                 /\ UNCHANGED <<res, hitFrom>>
    /\ UNCHANGED <<bucket, cache, pending, req, attempt, options, prior>>

RangeNotSupported ==
    createErrorResponse("RANGE_NOT_SUPPORTED",
                        "Range requests are not supported for image transformations", 400)

\* Mutant: the Range header of a transformed request is dropped silently.
RouteBranchRangeDropped(isImage, transformOptions, rangeHeader) ==
    IF ~isImage THEN "plain"
    ELSE IF ~HasKeys(transformOptions) THEN "plain"
    ELSE "transform"

\* The branch the asset route takes: "plain" (fetchFromR2 without options, for
\* a path that is no image or a query without transformations), "reject"
\* (transformations and a Range header), "transform" (serveTransformedImage).
RouteBranch(isImage, transformOptions, rangeHeader) ==
    IF ~isImage THEN "plain"
    ELSE IF ~HasKeys(transformOptions) THEN "plain"
    ELSE IF rangeHeader # <<>> THEN "reject"
    ELSE "transform"

\* app.get('/health'): c.json(data, 200, { 'Cache-Control': 'no-store', ... })
HealthResponse ==
    [ BaseResponse EXCEPT !.bodyKind = "json", !.message = "ok",
                          !.contentType = "application/json", !.cacheControl = "no-store" ]

\* The route of the request: app.get('/health') for the path /health, which is
\* registered first and returns its response; otherwise app.get('/*'), the
\* asset route, up to its first await.
Route(i) ==
    /\ pc[i] = "route"
    /\ log' = [log EXCEPT ![i] = Append(@, Call("route", NoOptions, NoRange, ""))]
    /\ LET isImage          == getFileExtension(req[i].path) \in IMAGE_EXTENSIONS
           transformOptions == parseTransformations(req[i].query)
           branch           == RouteBranch(isImage, transformOptions, req[i].range)
       IN  IF req[i].path = HealthPath
           THEN /\ res' = [res EXCEPT ![i] = HealthResponse]
                /\ pc' = [pc EXCEPT ![i] = "after"]
                /\ UNCHANGED <<attempt, options>>
           ELSE IF branch = "plain"
           THEN /\ attempt' = [attempt EXCEPT ![i] = "plain"]
                /\ options' = [options EXCEPT ![i] = NoOptions]
                /\ pc' = [pc EXCEPT ![i] = "fetch"]
                /\ res' = res
           ELSE IF branch = "reject"
           THEN /\ res' = [res EXCEPT ![i] = RangeNotSupported]
                /\ pc' = [pc EXCEPT ![i] = "after"]
                /\ UNCHANGED <<attempt, options>>
           ELSE /\ attempt' = [attempt EXCEPT ![i] = "transformed"]
                /\ options' = [options EXCEPT ![i] = transformOptions]
                /\ pc' = [pc EXCEPT ![i] = "fetch"]
                /\ res' = res
    /\ UNCHANGED <<bucket, cache, pending, req, mw, hitFrom, prior>>

\* X-Transform-Status
Tag(r, status) == [r EXCEPT !.transformStatus = status]

\* Mutant: a failed transformed response is returned, without the second call.
serveTransformedImageNoFallback(stage, r) ==
    [return |-> TRUE, res |-> IF Ok(r) THEN Tag(r, "success") ELSE r]

\* Mutant: a failed fallback is tried again.
serveTransformedImageRetries(stage, r) ==
    IF stage = "transformed"
    THEN IF Ok(r) THEN [return |-> TRUE, res |-> Tag(r, "success")]
         ELSE [return |-> FALSE, res |-> r]
    ELSE IF Ok(r) THEN [return |-> TRUE, res |-> Tag(r, "fallback-original")]
         ELSE [return |-> FALSE, res |-> r]

\* Mutant: a failed fallback is reported as not found.
serveTransformedImageHidesFault(stage, r) ==
    IF stage = "transformed"
    THEN IF Ok(r) THEN [return |-> TRUE, res |-> Tag(r, "success")]
         ELSE [return |-> FALSE, res |-> r]
    ELSE [return |-> TRUE, res |-> IF Ok(r) THEN Tag(r, "fallback-original") ELSE NotFoundText]

\* serveTransformedImage, after the fetchFromR2 call of the given stage has
\* returned r: a successful transformed response is returned tagged success; a
\* failed one leads to the second call, without options, whose response is
\* returned, tagged fallback-original when it is ok.
serveTransformedImage(stage, r) ==
    IF stage = "transformed"
    THEN IF Ok(r) THEN [return |-> TRUE, res |-> Tag(r, "success")]
         ELSE [return |-> FALSE, res |-> r]
    ELSE [return |-> TRUE, res |-> IF Ok(r) THEN Tag(r, "fallback-original") ELSE r]

\* The answers of a bucket call, an exception having one of the given messages.
WithTexts(answers, texts) ==
    {a \in answers : a.kind # "throw"} \cup
    (IF \E a \in answers : a.kind = "throw" THEN {Thrown(t) : t \in texts} ELSE {})

\* One call of fetchFromR2 and what its caller does with the response: the route
\* returns it ("plain"); serveTransformedImage returns it or calls again.
\* texts: the messages an exception of the bucket can have.
FetchFrom(i, texts) ==
    /\ pc[i] = "fetch"
    /\ LET isHeadRequest == req[i].method = "HEAD"
           cfOptions     == IF attempt[i] = "transformed" THEN options[i] ELSE NoOptions
           rangeHeader   == IF attempt[i] = "plain" THEN req[i].range ELSE <<>>
       IN  \E answer \in WithTexts(BucketAnswers(bucket, req[i].path, cfOptions, isHeadRequest,
                                                  rangeHeader), texts) :
             LET r == fetchFromR2(cfOptions, isHeadRequest, rangeHeader, answer)
                 s == serveTransformedImage(attempt[i], r)
             IN  /\ log' = [log EXCEPT ![i] =
                              Append(@, [Call(IF isHeadRequest THEN "head" ELSE "get", cfOptions,
                                              IF isHeadRequest THEN NoRange
                                              ELSE FetchRange(cfOptions, rangeHeader),
                                              answer.kind) EXCEPT !.text = answer.text])]
                 /\ IF attempt[i] = "plain"
                    THEN /\ res' = [res EXCEPT ![i] = r]
                         /\ pc' = [pc EXCEPT ![i] = "after"]
                         /\ attempt' = attempt
                    ELSE IF s.return
                    THEN /\ res' = [res EXCEPT ![i] = s.res]
                         /\ pc' = [pc EXCEPT ![i] = "after"]
                         /\ attempt' = attempt
                    ELSE /\ attempt' = [attempt EXCEPT ![i] = "fallback"]
                         /\ UNCHANGED <<res, pc>>
    /\ UNCHANGED <<bucket, cache, pending, req, mw, options, hitFrom, prior>>

Fetch(i) == FetchFrom(i, {Throw.text})

\* Mutant: every response is stored.
CacheableAlways(r) == TRUE

\* Whether the middleware hands the response to the cache: c.res && c.res.ok
Cacheable(r) == Ok(r)

\* Mutant: the write is handed over in the catch branch as well.
AfterNextAlsoInCatch(i) ==
    /\ pc[i] = "after"
    /\ IF mw[i] \in {"try", "catch"} /\ Cacheable(res[i])
       THEN /\ pending' = pending \cup {[task |-> i, key |-> cacheKey(req[i]),
                                         res |-> [res[i] EXCEPT !.cacheStatus = "MISS"]]}
            /\ log' = [log EXCEPT ![i] = Append(@, Call("waitUntil", NoOptions, NoRange, ""))]
       ELSE UNCHANGED <<pending, log>>
    /\ pc' = [pc EXCEPT ![i] = "done"]
    /\ UNCHANGED <<bucket, cache, req, res, mw, attempt, options, hitFrom, prior>>

\* Mutant: after the write is handed over the route is run once more.
AfterNextRunsRouteAgain(i) ==
    /\ pc[i] = "after"
    /\ IF mw[i] = "try" /\ Cacheable(res[i])
       THEN /\ pending' = pending \cup {[task |-> i, key |-> cacheKey(req[i]),
                                         res |-> [res[i] EXCEPT !.cacheStatus = "MISS"]]}
            /\ log' = [log EXCEPT ![i] = Append(@, Call("waitUntil", NoOptions, NoRange, ""))]
            /\ pc' = [pc EXCEPT ![i] = IF \E k \in 1..Len(log[i]) : log[i][k].op = "waitUntil"
                                       THEN "done" ELSE "route"]
       ELSE UNCHANGED <<pending, log>> /\ pc' = [pc EXCEPT ![i] = "done"]
    /\ UNCHANGED <<bucket, cache, req, res, mw, attempt, options, hitFrom, prior>>

\* Mutant: single flight, no write is handed over while a write for the same
\* key is pending.
AfterNextCoalesced(i) ==
    /\ pc[i] = "after"
    /\ IF mw[i] = "try" /\ Cacheable(res[i]) /\ \A w \in pending : w.key # cacheKey(req[i])
       THEN /\ pending' = pending \cup {[task |-> i, key |-> cacheKey(req[i]),
                                         res |-> [res[i] EXCEPT !.cacheStatus = "MISS"]]}
            /\ log' = [log EXCEPT ![i] = Append(@, Call("waitUntil", NoOptions, NoRange, ""))]
       ELSE UNCHANGED <<pending, log>>
    /\ pc' = [pc EXCEPT ![i] = "done"]
    /\ UNCHANGED <<bucket, cache, req, res, mw, attempt, options, hitFrom, prior>>

\* app.onError: the response for an error that no handler caught.
onError == createErrorResponse("INTERNAL_ERROR", "An unexpected error occurred", 500)

\* Mutant: a second call of next() runs the route again.
AfterNextWithRerun(i, outcomes) ==
    /\ pc[i] = "after"
    /\ \E outcome \in (IF mw[i] = "try" /\ Cacheable(res[i]) THEN outcomes ELSE {"done"}) :
         IF outcome = "throw"
         THEN /\ log' = [log EXCEPT ![i] = Append(@, Call("next", NoOptions, NoRange, "run"))]
              /\ mw' = [mw EXCEPT ![i] = "catch"]
              /\ pc' = [pc EXCEPT ![i] = "route"]
              /\ UNCHANGED <<pending, res>>
         ELSE /\ IF mw[i] = "try" /\ Cacheable(res[i])
                 THEN /\ pending' = pending \cup {[task |-> i, key |-> cacheKey(req[i]),
                                                   res |-> [res[i] EXCEPT !.cacheStatus = "MISS"]]}
                      /\ log' = [log EXCEPT ![i] =
                                   Append(@, Call("waitUntil", NoOptions, NoRange, ""))]
                 ELSE UNCHANGED <<pending, log>>
              /\ pc' = [pc EXCEPT ![i] = "done"]
              /\ UNCHANGED <<res, mw>>
    /\ UNCHANGED <<bucket, cache, req, attempt, options, hitFrom, prior>>

\* The cache middleware after `await next()`: in the try branch a successful
\* response is cloned, the clone is tagged MISS and its storage is handed to
\* waitUntil; c.res itself goes to the client as the route made it.  In the
\* catch branch nothing follows next().
\* outcomes: "done", the statements after next() complete; "throw", one of
\* them (clone, headers.set, executionCtx, waitUntil, cache.put) throws before
\* the write is handed over: the catch branch calls next() a second time, which
\* Hono refuses with an error ('next() called multiple times') that leaves the
\* middleware and is answered by app.onError.
AfterNextWith(i, outcomes) ==
    /\ pc[i] = "after"
    /\ \E outcome \in (IF mw[i] = "try" /\ Cacheable(res[i]) THEN outcomes ELSE {"done"}) :
         IF outcome = "throw"
         THEN /\ log' = [log EXCEPT ![i] = Append(@, Call("next", NoOptions, NoRange, "refused"))]
              /\ res' = [res EXCEPT ![i] = onError]
              /\ pc' = [pc EXCEPT ![i] = "done"]
              /\ UNCHANGED <<pending, mw>>
         ELSE /\ IF mw[i] = "try" /\ Cacheable(res[i])
                 THEN /\ pending' = pending \cup {[task |-> i, key |-> cacheKey(req[i]),
                                                   res |-> [res[i] EXCEPT !.cacheStatus = "MISS"]]}
                      /\ log' = [log EXCEPT ![i] =
                                   Append(@, Call("waitUntil", NoOptions, NoRange, ""))]
                 ELSE UNCHANGED <<pending, log>>
              /\ pc' = [pc EXCEPT ![i] = "done"]
              /\ UNCHANGED <<res, mw>>
    /\ UNCHANGED <<bucket, cache, req, attempt, options, hitFrom, prior>>

\* The statements after next() complete.
AfterDone == {"done"}

AfterNext(i) == AfterNextWith(i, AfterDone)

\* cache.put(cacheKey, response.clone()) completes.
CachePut(w) ==
    /\ w \in pending
    /\ cache' = (w.key :> [res |-> w.res, by |-> req[w.task]]) @@ cache
    /\ pending' = pending \ {w}
    /\ UNCHANGED <<bucket, pc, req, res, mw, attempt, options, hitFrom, prior, log>>

\* Mutant: a rejected cache.put turns the response of its request into an error.
CachePutFailsLoudly(w) ==
    /\ w \in pending
    /\ pending' = pending \ {w}
    /\ res' = [res EXCEPT ![w.task] = createErrorResponse("INTERNAL_ERROR", "An unexpected error occurred", 500)]
    /\ UNCHANGED <<bucket, cache, pc, req, mw, attempt, options, hitFrom, prior, log>>

\* cache.put rejects: .catch logs 'Cache storage error' and nothing else happens.
CachePutFails(w) ==
    /\ w \in pending
    /\ pending' = pending \ {w}
    /\ UNCHANGED <<bucket, cache, pc, req, res, mw, attempt, options, hitFrom, prior, log>>

Next ==
    \/ \E i \in Tasks : Receive(i, Requests)
    \/ \E i \in Tasks : RateLimit(i)
    \/ \E i \in Tasks : CacheLookup(i)
    \/ \E i \in Tasks : Route(i)
    \/ \E i \in Tasks : Fetch(i)
    \/ \E i \in Tasks : AfterNext(i)
    \/ \E w \in pending : CachePut(w)
    \/ \E w \in pending : CachePutFails(w)

Spec == Init /\ [][Next]_vars

\* One request at a time, over every Range header and object size.
NextRange ==
    \/ Receive(1, RangeRequests)
    \/ RateLimit(1)
    \/ CacheLookup(1)
    \/ Route(1)
    \/ Fetch(1)
    \/ AfterNext(1)
    \/ \E w \in pending : CachePut(w)
    \/ \E w \in pending : CachePutFails(w)

SpecRange == InitRange /\ [][NextRange]_vars

\* Mutant: the runtime drops a background task once the response is sent.
SettleNever(w) == FALSE

\* executionCtx.waitUntil(promise): the runtime keeps the invocation alive until
\* the promise settles, that is until cache.put has resolved or rejected.
Settle(w) == CachePut(w) \/ CachePutFails(w)

\* The range specification with the guarantee of waitUntil: a write that was
\* handed over does settle.
SpecLive == SpecRange /\ \A i \in Tasks : WF_vars(\E w \in pending : w.task = i /\ Settle(w))

\* ------------------------------------------------- resolver specification

\* Raw values of the query parameters: in range, at and beyond the limits,
\* negative, fractional, with a unit, not a number, empty.
WidthValues ==
    { <<>>, Digits(0), Digits(2), Digits(MAX_IMAGE_DIMENSION), Digits(MAX_IMAGE_DIMENSION + 1),
      <<"-", "5">>, <<"1", "2", ".", "7">>, <<"3", "0", "0", "p", "x">>, <<"a", "b", "c">> }

HeightValues == { Digits(3), Digits(0) }

QualityValues == { Digits(50), Digits(0), Digits(MAX_QUALITY + 1), <<"x">>, <<"7", ".", "5">> }

FitValues == { <<"c", "o", "v", "e", "r">>, <<"f", "i", "l", "l">> }

FormatValues == { <<"w", "e", "b", "p">>, <<"W", "e", "b", "P">>, <<"j", "s", "o", "n">>,
                  <<"b", "m", "p">> }

\* The parameter k absent, or present with one of the values.
Param(k, values) == {<<>>} \cup {k :> v : v \in values}

\* Every combination of the five parameters; and ?w=n for every n from 0 to one
\* beyond the largest dimension.
ResolveQueries ==
    { w @@ h @@ q @@ fit @@ f :
        w \in Param("w", WidthValues), h \in Param("h", HeightValues),
        q \in Param("q", QualityValues), fit \in Param("fit", FitValues),
        f \in Param("f", FormatValues) }

WidthQueries == { "w" :> Digits(n) : n \in 0..(MAX_IMAGE_DIMENSION + 1) }

ResolveRequests ==
    { Request("GET", p, q, r, "", "") :
        p \in {APng, BTxt}, q \in ResolveQueries, r \in {<<>>, RangeClosed(0, 1)} }
    \cup { Request("GET", APng, q, <<>>, "", "") : q \in WidthQueries }

InitResolve == InitWith({b \in Buckets : DOMAIN b # {}})

\* A request arrives, and the resolver of utils.ts is applied to its path and
\* query: what it returns is recorded as the first entry of log.
Resolve(i) ==
    /\ pc[i] = "idle"
    /\ \E r \in ResolveRequests :
         LET resolved == parseTransformationsUtils(r.path, r.query) IN
         /\ req' = [req EXCEPT ![i] = r]
         /\ log' = [log EXCEPT ![i] = <<Call("parseTransformations", resolved.options, NoRange,
                                              IF resolved.isNull THEN "null" ELSE "options")>>]
    /\ pc' = [pc EXCEPT ![i] = "ratelimit"]
    /\ UNCHANGED <<bucket, cache, pending, res, mw, attempt, options, hitFrom, prior>>

\* One request, over the queries of the resolver.
NextResolve ==
    \/ Resolve(1)
    \/ RateLimit(1)
    \/ CacheLookup(1)
    \/ Route(1)
    \/ Fetch(1)
    \/ AfterNext(1)
    \/ \E w \in pending : CachePut(w)
    \/ \E w \in pending : CachePutFails(w)

SpecResolve == InitResolve /\ [][NextResolve]_vars

\* ---------------------------------------------------- fault specification

\* The messages an exception of the bucket can have.
FaultTexts == {"Network connection lost", "internal error: shard 7 at 10.0.3.4"}

\* GET and HEAD on the image path, with or without a transform parameter and a
\* Range header; and GET with a client address.
AssetRequests ==
    { Request(m, APng, q, r, "", "") :
        m \in {"GET", "HEAD"}, q \in {<<>>, W2}, r \in {<<>>, RangeClosed(0, 1)} }
    \cup { Request("GET", APng, q, <<>>, "", ClientIp) : q \in {<<>>, W2} }

\* The requests for /health: with and without a client address, a query and a
\* Range header.
HealthRequests ==
    { Request("GET", HealthPath, <<>>, <<>>, "", ip) : ip \in {"", ClientIp} }
    \cup { Request("HEAD", HealthPath, <<>>, <<>>, "", ""),
           Request("GET", HealthPath, W2, RangeClosed(0, 1), "", "") }

\* The requests of the fault specification.
FaultRequests == AssetRequests \cup HealthRequests

\* Two requests, which may be the same one run twice, whose bucket calls throw
\* exceptions with any of the messages.
NextFault ==
    \/ \E i \in Tasks : Receive(i, FaultRequests)
    \/ \E i \in Tasks : RateLimit(i)
    \/ \E i \in Tasks : CacheLookup(i)
    \/ \E i \in Tasks : Route(i)
    \/ \E i \in Tasks : FetchFrom(i, FaultTexts)
    \/ \E i \in Tasks : AfterNext(i)
    \/ \E w \in pending : CachePut(w)
    \/ \E w \in pending : CachePutFails(w)

SpecFault == Init /\ [][NextFault]_vars

\* What the statements after next() can do when they may throw.
AfterOutcomes == {"done", "throw"}

\* One request at a time, the statements of the cache middleware after next()
\* completing or throwing.
NextRetry ==
    \/ Receive(1, FaultRequests)
    \/ RateLimit(1)
    \/ CacheLookup(1)
    \/ Route(1)
    \/ Fetch(1)
    \/ AfterNextWith(1, AfterOutcomes)
    \/ \E w \in pending : CachePut(w)
    \/ \E w \in pending : CachePutFails(w)

SpecRetry == Init /\ [][NextRetry]_vars

\* ==================================================================== claims

Done(i) == pc[i] = "done"

\* The route has returned: res[i] is the response of the handler.
Handled(i) == pc[i] \in {"after", "done"}

\* The positions in log[i] of the calls with an op in ops.
Calls(i, ops) == {k \in 1..Len(log[i]) : log[i][k].op \in ops}

BucketCalls(i) == Calls(i, {"head", "get"})

Max(S) == CHOOSE x \in S : \A y \in S : y <= x

\* The last bucket call made for task i.
LastBucketCall(i) == log[i][Max(BucketCalls(i))]

FirstBucketCall(i) == log[i][CHOOSE k \in BucketCalls(i) : \A l \in BucketCalls(i) : k <= l]

IsImagePath(r) == getFileExtension(r.path) \in IMAGE_EXTENSIONS

HasTransformParam(r) == DOMAIN r.query \cap TransformParams # {}

KeyOf(r) == normalizeObjectKey(r.path)

Exists(r) == KeyOf(r) \in DOMAIN bucket

\* Two requests agree on the URL, the Range value and the Accept-Encoding value.
SameTriple(a, b) ==
    a.path = b.path /\ a.query = b.query /\ a.range = b.range /\ a.encoding = b.encoding

WasHit(i) == hitFrom[i] # NoRequest

\* C1: a GET on an image path with a recognized transform parameter and a Range
\* header (of any form) is answered 400 RANGE_NOT_SUPPORTED, and no bucket call
\* is made for it and no transformation is asked for.
C1_RangeWithTransformRejected ==
    \A i \in Tasks :
        ( /\ Done(i) /\ req[i].method = "GET"
          /\ IsImagePath(req[i]) /\ HasTransformParam(req[i]) /\ req[i].range # <<>> )
        => /\ res[i].status = 400
           /\ res[i].bodyKind = "json" /\ res[i].error = "RANGE_NOT_SUPPORTED"
           /\ BucketCalls(i) = {}
           /\ res[i].cf = NoOptions /\ res[i].transformStatus = ""

C1_Witness ==
    \E i \in Tasks :
        /\ Done(i) /\ req[i].method = "GET" /\ IsImagePath(req[i]) /\ HasTransformParam(req[i])
        /\ req[i].range = RangeClosed(0, 1) /\ Exists(req[i])
        /\ res[i].status = 400 /\ Calls(i, {"route"}) # {}

\* C2 (as claimed): of two identical successful GET requests, the second issued
\* after the first was answered, starting from an empty cache, the first
\* response carries X-Cache-Status: MISS, the second HIT, and the bodies are equal.
C2_FirstMissSecondHit ==
    \A i, j \in Tasks :
        ( /\ Done(i) /\ Done(j) /\ prior[i] = {} /\ i \in prior[j]
          /\ req[i].method = "GET" /\ req[j].method = "GET" /\ SameTriple(req[i], req[j])
          /\ Ok(res[i]) /\ Ok(res[j]) )
        => /\ res[i].cacheStatus = "MISS"
           /\ res[j].cacheStatus = "HIT"
           /\ res[i].body = res[j].body

\* C3: a stored response is served as a hit only to a request that agrees with
\* the storing request on URL, Range and Accept-Encoding (other headers and the
\* method do not matter), every entry is filed under the triple of the request
\* that stored it, and a lookup that is answered misses only when no entry was
\* stored by a request with the same triple.
C3_HitOnlySameTriple ==
    /\ \A i \in Tasks : WasHit(i) => SameTriple(hitFrom[i], req[i])
    /\ \A k \in DOMAIN cache :
         /\ k.path = cache[k].by.path /\ k.query = cache[k].by.query
         /\ k.range = cache[k].by.range /\ k.encoding = cache[k].by.encoding

C3_MissOnlyWithoutEntry ==
    \A i \in Tasks :
        ( pc[i] = "cache" /\ pc'[i] = "route" /\ log'[i][Len(log'[i])].answer = "miss" )
        => ~ \E k \in DOMAIN cache : SameTriple(cache[k].by, req[i])

C3_CacheKeyIsTriple == [] C3_HitOnlySameTriple /\ [][C3_MissOnlyWithoutEntry]_vars

C3_Witness ==
    \E i \in Tasks :
        /\ WasHit(i) /\ SameTriple(hitFrom[i], req[i])
        /\ hitFrom[i].ip # req[i].ip /\ hitFrom[i].method # req[i].method

\* C4: on a cache hit the route is not entered and the bucket is not called for
\* that request, and the response returned has the status and body of the stored
\* response and carries X-Cache-Status: HIT.
C4_HitState ==
    \A i \in Tasks :
        WasHit(i) => /\ Done(i)
                     /\ Calls(i, {"route", "head", "get", "waitUntil"}) = {}
                     /\ res[i].cacheStatus = "HIT"

C4_HitStep ==
    \A i \in Tasks :
        ( ~WasHit(i) /\ hitFrom'[i] # NoRequest )
        => \E k \in DOMAIN cache :
              /\ cache[k].by = hitFrom'[i]
              /\ res'[i].status = cache[k].res.status
              /\ res'[i].bodyKind = cache[k].res.bodyKind
              /\ res'[i].body = cache[k].res.body
              /\ res'[i] = [cache[k].res EXCEPT !.cacheStatus = "HIT"]

C4_HitServedFromCache == [] C4_HitState /\ [][C4_HitStep]_vars

C4_Witness ==
    \E i \in Tasks : WasHit(i) /\ res[i].bodyKind = "bytes" /\ res[i].body # <<>> /\ res[i].status = 200

\* C5: every cache entry, every pending cache write and every response served
\* as a hit has a 2xx status; a write is handed to waitUntil only for a 2xx
\* response of the handler.
C5_OnlySuccessCached ==
    /\ \A k \in DOMAIN cache : Ok(cache[k].res)
    /\ \A w \in pending : Ok(w.res)
    /\ \A i \in Tasks : WasHit(i) => Ok(res[i])
    /\ \A i \in Tasks : Calls(i, {"waitUntil"}) # {} => Ok(res[i])

C5_Witness ==
    /\ DOMAIN cache # {}
    /\ \E i \in Tasks : Done(i) /\ mw[i] = "try" /\ Calls(i, {"route"}) # {} /\ res[i].status \in {400, 500}

\* C6: when a transformation is requested by a GET for an existing object and
\* the transformed fetchFromR2 call fails, a second call without options is made,
\* and when that one gets the object the response is 200 with the object's bytes
\* and X-Transform-Status: fallback-original, and no error is shown.
C6_FallbackToOriginal ==
    \A i \in Tasks :
        ( /\ Handled(i) /\ req[i].method = "GET" /\ Exists(req[i])
          /\ BucketCalls(i) # {}
          /\ HasKeys(FirstBucketCall(i).options) /\ FirstBucketCall(i).answer # "object" )
        => /\ Cardinality(BucketCalls(i)) = 2
           /\ ~HasKeys(LastBucketCall(i).options)
           /\ LastBucketCall(i).answer = "object"
              => /\ res[i].status = 200
                 /\ res[i].bodyKind = "bytes" /\ res[i].body = bucket[KeyOf(req[i])].body
                 /\ res[i].transformStatus = "fallback-original"
                 /\ res[i].error = ""

C6_Witness ==
    \E i \in Tasks :
        /\ Done(i) /\ req[i].method = "GET" /\ Exists(req[i]) /\ Cardinality(BucketCalls(i)) = 2
        /\ FirstBucketCall(i).answer = "throw" /\ LastBucketCall(i).answer = "object"
        /\ res[i].transformStatus = "fallback-original" /\ res[i].status = 200

\* A GET that takes the untransformed path and whose bucket call was answered
\* with the object.
PlainGetServed(i) ==
    /\ Handled(i) /\ req[i].method = "GET"
    /\ ~(IsImagePath(req[i]) /\ HasTransformParam(req[i]))
    /\ Exists(req[i])
    /\ BucketCalls(i) # {} /\ LastBucketCall(i).answer = "object"

\* C7: for an object of N bytes, an untransformed GET with Range: bytes=s-e,
\* 0 <= s <= e < N, is answered 206 with Content-Range bytes s-e/N and exactly
\* the e-s+1 bytes at positions s..e.
C7_RangeServedExactly ==
    \A i \in Tasks : PlainGetServed(i) => \A s, e \in 0..MaxSize :
        ( /\ s <= e /\ e < bucket[KeyOf(req[i])].size
          /\ req[i].range = RangeClosed(s, e) )
        => /\ res[i].status = 206
           /\ res[i].contentRange = <<s, e, bucket[KeyOf(req[i])].size>>
           /\ res[i].bodyKind = "bytes"
           /\ Len(res[i].body) = e - s + 1
           /\ \A k \in 1..(e - s + 1) : res[i].body[k] = bucket[KeyOf(req[i])].body[s + k]

C7_Witness ==
    \E i \in Tasks :
        /\ Done(i) /\ PlainGetServed(i) /\ req[i].range = RangeClosed(2, MaxSize - 1)
        /\ bucket[KeyOf(req[i])].size = MaxSize
        /\ res[i].status = 206 /\ res[i].contentRange = <<2, MaxSize - 1, MaxSize>>

\* C8: a Range header that is not of the form bytes=<start>-<end>?, or whose
\* start is greater than its end, is treated as no Range header: the bucket is
\* asked for the whole object and the answer is a full 200 without
\* Content-Range.
IgnoredRange(h) ==
    \/ h \in Malformed
    \/ \E s, e \in 0..(MaxSize + 1) : s > e /\ h = RangeClosed(s, e)

C8_MalformedRangeIsNoRange ==
    \A i \in Tasks :
        ( PlainGetServed(i) /\ IgnoredRange(req[i].range) )
        => /\ res[i].status = 200
           /\ res[i].contentRange = <<>>
           /\ res[i].bodyKind = "bytes" /\ res[i].body = bucket[KeyOf(req[i])].body
           /\ res[i].error = ""
           /\ LastBucketCall(i).range = NoRange

C8_Witness ==
    \E i \in Tasks :
        /\ Done(i) /\ PlainGetServed(i) /\ res[i].status = 200
        /\ req[i].range = RangeClosed(2, 1) /\ bucket[KeyOf(req[i])].size = MaxSize

\* C9 (as claimed): a request, GET or HEAD, with or without transform
\* parameters, whose key the bucket does not hold, and whose bucket calls were
\* all answered, gets 404 with a JSON error body whose error is NOT_FOUND.
C9_AbsentKeyIsNotFoundJson ==
    \A i \in Tasks :
        ( /\ Handled(i) /\ ~Exists(req[i])
          /\ BucketCalls(i) # {}
          /\ \A k \in BucketCalls(i) : log[i][k].answer = "null" )
        => /\ res[i].status = 404
           /\ res[i].bodyKind = "json"
           /\ res[i].error = "NOT_FOUND"

\* A HEAD request answered by the HEAD branch of fetchFromR2 with the object's
\* metadata.
HeadServed(i) ==
    /\ Handled(i) /\ req[i].method = "HEAD" /\ Exists(req[i])
    /\ BucketCalls(i) # {} /\ LastBucketCall(i).op = "head" /\ LastBucketCall(i).answer = "object"

Resolved(i) == [isNull |-> log[i][1].answer = "null", options |-> log[i][1].options]

WasResolved(i) == log[i] # <<>> /\ log[i][1].op = "parseTransformations"

\* The field k of a resolver result: <<value>>, or <<>> when absent or none.
Field(resolved, k) ==
    IF ~resolved.isNull /\ k \in DOMAIN resolved.options THEN <<resolved.options[k]>> ELSE <<>>

\* A raw value that is the decimal text of an integer (optional minus sign, then
\* digits only), and the integer it denotes.
IntegerText(raw) ==
    LET u == IF raw # <<>> /\ Head(raw) = "-" THEN Tail(raw) ELSE raw IN
    u # <<>> /\ \A k \in 1..Len(u) : IsDigit(u[k])

IntegerValue(raw) ==
    IF Head(raw) = "-" THEN 0 - DigitsVal(Tail(raw)) ELSE DigitsVal(raw)

\* C11 (as claimed): on an image path with parameter w, the request is resolved,
\* the width is w when the raw value is an integer in [1, 4096], and the width
\* is absent for every other raw value (out of range, fractional as 12.7, with
\* a unit as 300px, not a number).
C11_WidthOnlyForIntegersInRange ==
    \A i \in Tasks :
        ( WasResolved(i) /\ IsImagePath(req[i]) /\ "w" \in DOMAIN req[i].query )
        => LET raw == req[i].query["w"] IN
           /\ ~Resolved(i).isNull
           /\ Field(Resolved(i), "width") =
                IF IntegerText(raw) /\ IntegerValue(raw) >= 1 /\ IntegerValue(raw) <= 4096
                THEN <<IntegerValue(raw)>> ELSE <<>>

Without(query, p) == [k \in DOMAIN query \ {p} |-> query[k]]

UnsupportedFormat(query) ==
    /\ "f" \in DOMAIN query /\ query["f"] # <<>>
    /\ toLowerCase(query["f"]) \notin { <<"w","e","b","p">>, <<"a","v","i","f">>,
                                        <<"j","p","e","g">>, <<"p","n","g">> }

C14_NoneForNonImageOrNoParams ==
    \A i \in Tasks :
        ( WasResolved(i) /\ (~IsImagePath(req[i]) \/ ~HasTransformParam(req[i])) )
        => /\ Resolved(i).isNull
           /\ ( Handled(i) /\ req[i].range # <<>> )
              => /\ ~(res[i].status = 400)
                 /\ res[i].error # "RANGE_NOT_SUPPORTED"
                 /\ Cardinality(BucketCalls(i)) = 1
                 /\ ~HasKeys(LastBucketCall(i).options)
                 /\ LastBucketCall(i).range = parseRangeHeader(req[i].range)
                 /\ LastBucketCall(i).range.defined
                 /\ LastBucketCall(i).answer = "object"
                    => res[i].status = 206 /\ res[i].contentRange = <<0, 1, MaxSize>>

C14_Witness ==
    \E i \in Tasks :
        /\ WasResolved(i) /\ ~IsImagePath(req[i]) /\ Done(i)
        /\ DOMAIN req[i].query = TransformParams
        /\ req[i].range = RangeClosed(0, 1)
        /\ Resolved(i).isNull /\ res[i].status = 206

\* The key of the option object that the parameter p sets.
OptionKey(p) ==
    CASE p = "w" -> "width" [] p = "h" -> "height" [] p = "q" -> "quality"
      [] p = "fit" -> "fit" [] p = "f" -> "format"

\* The raw values a parameter takes in the resolver specification.
ValuesOf(p) ==
    CASE p = "w" -> WidthValues [] p = "h" -> HeightValues [] p = "q" -> QualityValues
      [] p = "fit" -> FitValues [] p = "f" -> FormatValues

\* C15: whenever the resolver returns an option set, removing a sibling
\* parameter or giving it any other raw value, valid or not, leaves every other
\* field as it is (as long as an option set is still returned); and a query
\* with one of w, h, q, fit on an image path always yields an option set.
C15_FieldsIndependent ==
    \A i \in Tasks :
        ( WasResolved(i) /\ pc[i] = "ratelimit" /\ ~Resolved(i).isNull )
        => \A s \in DOMAIN req[i].query :
              \A other \in {Without(req[i].query, s)}
                           \cup {(s :> v) @@ req[i].query : v \in ValuesOf(s)} :
                 LET changed == parseTransformationsUtils(req[i].path, other) IN
                 /\ DOMAIN other \cap {"w", "h", "q", "fit"} # {} => ~changed.isNull
                 /\ ~changed.isNull
                    => \A p \in TransformParams \ {s} :
                          Field(changed, OptionKey(p)) = Field(Resolved(i), OptionKey(p))

C15_Witness ==
    \E i \in Tasks :
        /\ WasResolved(i) /\ pc[i] = "ratelimit" /\ ~Resolved(i).isNull
        /\ DOMAIN req[i].query = {"w", "h", "q", "f"}
        /\ req[i].query["w"] = <<"a", "b", "c">> /\ req[i].query["q"] = <<"x">>
        /\ Field(Resolved(i), "width") = <<>>
        /\ Field(Resolved(i), "height") = <<3>>
        /\ Field(Resolved(i), "format") = << <<"w", "e", "b", "p">> >>

\* C16 (as claimed): a resolved option set has the default quality 85 exactly
\* when q is absent or is not an integer in [1, 100] (then the quality is the
\* value of q); and without a recognized parameter nothing is resolved.
C16_DefaultQuality ==
    \A i \in Tasks :
        WasResolved(i)
        => /\ ~HasTransformParam(req[i]) => Resolved(i).isNull
           /\ ~Resolved(i).isNull =>
                LET raw == GetParam(req[i].query, "q") IN
                /\ HasTransformParam(req[i])
                /\ Field(Resolved(i), "quality") =
                     IF IntegerText(raw) /\ IntegerValue(raw) >= 1 /\ IntegerValue(raw) <= 100
                     THEN <<IntegerValue(raw)>> ELSE <<85>>

\* ------------------------------------------------------------ fault claims

\* The positions of the bucket calls of task i that threw.
Faults(i) == {k \in BucketCalls(i) : log[i][k].answer = "throw"}

IsStorageError(r) == r.status = 500 /\ r.bodyKind = "json" /\ r.error = "STORAGE_ERROR"

\* C17 (as claimed): once a bucket call of a request has thrown, no further
\* bucket call is made for that request, and the request ends with 500
\* STORAGE_ERROR, on the untransformed and on the transform path.
C17_FaultIsTerminal ==
    \A i \in Tasks :
        /\ \A k \in Faults(i) : k = Max(BucketCalls(i))
        /\ ( Handled(i) /\ Faults(i) # {} ) => IsStorageError(res[i])

\* C17 (amended): fetchFromR2 never calls the bucket again after a fault.  On
\* the untransformed path the fault ends the request with 500 STORAGE_ERROR.
\* On the transform path a fault of the transformed attempt is followed by the
\* one fallback call without options and by nothing else, and the request ends
\* with 500 STORAGE_ERROR when the last call made for it threw.
C17_FaultEndsOrFallsBackOnce ==
    \A i \in Tasks :
        /\ Cardinality(BucketCalls(i)) <= 2
        /\ \A k \in Faults(i) :
              \/ k = Max(BucketCalls(i))
              \/ /\ HasKeys(log[i][k].options)
                 /\ Cardinality(BucketCalls(i)) = 2
                 /\ ~HasKeys(LastBucketCall(i).options)
        /\ ( BucketCalls(i) # {} /\ ~HasKeys(FirstBucketCall(i).options) )
           => Cardinality(BucketCalls(i)) = 1
        /\ ( Handled(i) /\ BucketCalls(i) # {} /\ LastBucketCall(i).answer = "throw" )
           => IsStorageError(res[i])
        /\ ( Handled(i) /\ IsStorageError(res[i]) )
           => BucketCalls(i) # {} /\ LastBucketCall(i).answer = "throw"

C17_Witness ==
    \E i \in Tasks :
        /\ Done(i) /\ req[i].method = "HEAD" /\ Cardinality(BucketCalls(i)) = 2
        /\ Cardinality(Faults(i)) = 1
        /\ HasKeys(FirstBucketCall(i).options) /\ FirstBucketCall(i).answer = "throw"
        /\ ~HasKeys(LastBucketCall(i).options) /\ LastBucketCall(i).answer = "object"
        /\ res[i].status = 200 /\ ~IsStorageError(res[i])

\* C18: when a transformation was requested and both the transformed call and
\* the fallback call threw, the response is 500 with the JSON error
\* TRANSFORM_ERROR or STORAGE_ERROR.
C18_BothAttemptsFail ==
    \A i \in Tasks :
        ( /\ Handled(i)
          /\ Cardinality(BucketCalls(i)) = 2
          /\ Cardinality(Faults(i)) = 2
          /\ HasKeys(FirstBucketCall(i).options) )
        => /\ res[i].status = 500
           /\ res[i].bodyKind = "json"
           /\ res[i].error \in {"TRANSFORM_ERROR", "STORAGE_ERROR"}
           /\ res[i].transformStatus = ""

C18_Witness ==
    \E i \in Tasks :
        /\ Done(i) /\ req[i].method = "GET" /\ Exists(req[i])
        /\ Cardinality(Faults(i)) = 2 /\ HasKeys(FirstBucketCall(i).options)
        /\ res[i].status = 500

\* C19: a step in which a background cache write fails (it leaves pending and
\* the cache stays as it was) changes no response, of the request that
\* scheduled it or of any other, and nothing else a client can see; and a
\* response whose write was scheduled stays the successful response the
\* handler made, whatever became of the write.
C19_WriteFailureStep ==
    ( pending' # pending /\ pending' \subseteq pending /\ cache' = cache )
    => /\ res' = res
       /\ pc' = pc /\ log' = log /\ hitFrom' = hitFrom /\ mw' = mw

C19_ScheduledResponseKept ==
    \A i \in Tasks :
        ( Done(i) /\ Calls(i, {"waitUntil"}) # {} )
        => Ok(res[i]) /\ res[i].error = ""

C19_WriteFailureInvisible == [] C19_ScheduledResponseKept /\ [][C19_WriteFailureStep]_vars

\* The write scheduled for task i failed: it is no longer pending and the cache
\* has no entry under the key.
C19_Witness ==
    \E i \in Tasks :
        /\ Done(i) /\ Calls(i, {"waitUntil"}) # {}
        /\ \A w \in pending : w.task # i
        /\ cacheKey(req[i]) \notin DOMAIN cache
        /\ res[i].status = 200 /\ res[i].bodyKind = "bytes"
        /\ \E j \in Tasks : j # i /\ i \in prior[j] /\ Done(j) /\ SameTriple(req[i], req[j])
                            /\ ~WasHit(j) /\ res[j].status = 200

\* C20 (as claimed): every HEAD request whose bucket calls did not throw is
\* answered 404 (key absent) or with a bodyless response carrying the metadata
\* headers and tagged not-applicable; never 400 RANGE_NOT_SUPPORTED, never
\* tagged success or fallback-original.
C20_HeadHasPrecedence ==
    \A i \in Tasks :
        ( Handled(i) /\ req[i].method = "HEAD" /\ Faults(i) = {} )
        => /\ res[i].status # 400 /\ res[i].error # "RANGE_NOT_SUPPORTED"
           /\ res[i].transformStatus \notin {"success", "fallback-original"}
           /\ IF Exists(req[i])
              THEN /\ res[i].status = 200 /\ res[i].bodyKind = "null"
                   /\ res[i].etag = bucket[KeyOf(req[i])].httpEtag
                   /\ res[i].transformStatus = "not-applicable"
              ELSE res[i].status = 404

\* ------------------------------------------------- response header claims

\* The response of task i was made by fetchFromR2 for this request (it is not a
\* stored response served as a hit).
FromPipeline(i) == Handled(i) /\ ~WasHit(i)

\* C21 (as claimed): every 200 or 206 response the pipeline makes, for HEAD,
\* plain GET, range GET and transformed GET, carries the ETag of the object's
\* metadata, Accept-Ranges: bytes, the immutable Cache-Control value, and an
\* X-Transform-Status header that is success, fallback-original or
\* not-applicable.
C21_SuccessHeaders ==
    \A i \in Tasks :
        ( FromPipeline(i) /\ res[i].status \in {200, 206} )
        => /\ Exists(req[i])
           /\ res[i].etag = bucket[KeyOf(req[i])].httpEtag
           /\ res[i].acceptRanges = "bytes"
           /\ res[i].cacheControl = IMMUTABLE
           /\ res[i].transformStatus \in {"success", "fallback-original", "not-applicable"}

\* C22 (as claimed): every response with a status of 400 or more is the JSON
\* envelope with Cache-Control: no-store, an error code of the taxonomy and the
\* status the taxonomy gives that code.
TaxonomyStatus ==
    [ NOT_FOUND |-> 404, INCOMPLETE_OBJECT |-> 404, STORAGE_ERROR |-> 500,
      TRANSFORM_ERROR |-> 500, RANGE_NOT_SUPPORTED |-> 400, RATE_LIMITED |-> 429,
      INTERNAL_ERROR |-> 500 ]

C22_ErrorEnvelope ==
    \A i \in Tasks :
        ( Done(i) /\ res[i].status >= 400 )
        => /\ res[i].bodyKind = "json"
           /\ res[i].contentType = "application/json"
           /\ res[i].cacheControl = "no-store"
           /\ res[i].error \in DOMAIN TaxonomyStatus
           /\ res[i].status = TaxonomyStatus[res[i].error]

\* C23: the response does not depend on the message of an exception: two runs
\* of the same request in which the same calls were made with the same
\* outcomes, the exceptions differing in their messages only, end with the same
\* response, and no response contains the message of an exception.
SameButText(a, b) ==
    /\ Len(a) = Len(b)
    /\ \A k \in 1..Len(a) : [a[k] EXCEPT !.text = ""] = [b[k] EXCEPT !.text = ""]

C23_FaultTextInvisible ==
    /\ \A i \in Tasks : res[i].message \notin FaultTexts
    /\ \A i, j \in Tasks :
          ( Handled(i) /\ Handled(j) /\ req[i] = req[j] /\ SameButText(log[i], log[j]) )
          => res[i] = res[j]

C23_Witness ==
    \E i, j \in Tasks :
        /\ Done(i) /\ Done(j) /\ req[i] = req[j] /\ SameButText(log[i], log[j])
        /\ Cardinality(Faults(i)) = 1
        /\ \E k \in Faults(i) : log[i][k].text # log[j][k].text
        /\ IsStorageError(res[i]) /\ res[i] = res[j]

\* ------------------------------------------------------ concurrency claims

\* cache.match answered undefined for task i.
Missed(i) == \E k \in Calls(i, {"match"}) : log[i][k].answer = "miss"

\* Two finished requests with the same cache key that both missed.
BothMissed(i, j) ==
    /\ i # j /\ Done(i) /\ Done(j)
    /\ cacheKey(req[i]) = cacheKey(req[j])
    /\ Missed(i) /\ Missed(j)

\* C24: when two requests with the same cache key both miss, the route runs for
\* each of them, each gets the response its own bucket calls led to, a write is
\* handed over for each successful response, and a write that completes
\* replaces whatever the cache held under the key, so that the entry is the
\* one of the write that completed last.
C24_BothRun ==
    \A i, j \in Tasks :
        BothMissed(i, j)
        => /\ Calls(i, {"route"}) # {}
           /\ ~WasHit(i) /\ res[i].cacheStatus = ""
           /\ BucketCalls(i) # {}
              => /\ Ok(res[i]) <=> LastBucketCall(i).answer = "object"
                 /\ IsStorageError(res[i]) <=> LastBucketCall(i).answer = "throw"
                 /\ Ok(res[i]) => res[i].transformStatus =
                                     IF ~HasKeys(FirstBucketCall(i).options) THEN ""
                                     ELSE IF Cardinality(BucketCalls(i)) = 1 THEN "success"
                                     ELSE "fallback-original"
           /\ Ok(res[i]) <=> Calls(i, {"waitUntil"}) # {}

C24_LastWriteWins ==
    ( pending' # pending /\ pending' \subseteq pending /\ cache' # cache )
    => \E w \in pending \ pending' :
          /\ cache' = (w.key :> [res |-> w.res, by |-> req[w.task]]) @@ cache
          /\ DOMAIN cache' = DOMAIN cache \cup {w.key}
          /\ \A k \in DOMAIN cache \ {w.key} : cache'[k] = cache[k]

C24_ConcurrentMisses == [] C24_BothRun /\ [][C24_LastWriteWins]_vars

\* Both requests missed and were served differently by their own route (one
\* transformed, one the fallback), both writes were made, and the entry is the
\* response of one of them.
C24_Witness ==
    \E i, j \in Tasks :
        /\ BothMissed(i, j)
        /\ Calls(i, {"waitUntil"}) # {} /\ Calls(j, {"waitUntil"}) # {}
        /\ pending = {}
        /\ res[i].transformStatus = "success" /\ res[j].transformStatus = "fallback-original"
        /\ cacheKey(req[i]) \in DOMAIN cache
        /\ cache[cacheKey(req[i])].res = [res[j] EXCEPT !.cacheStatus = "MISS"]

\* ---------------------------------------------------------- health claims

\* C25: a request for the path /health never reaches the cache: no cache.match
\* and no cache write is made for it, its response is tagged neither HIT nor
\* MISS, and the cache never holds, and is never handed, an entry for /health.
C25_HealthBypassesCache ==
    /\ \A i \in Tasks :
          req[i].path = HealthPath
          => /\ Calls(i, {"match", "waitUntil"}) = {}
             /\ ~WasHit(i)
             /\ res[i].cacheStatus \notin {"HIT", "MISS"}
    /\ \A k \in DOMAIN cache : k.path # HealthPath /\ cache[k].by.path # HealthPath
    /\ \A w \in pending : w.key.path # HealthPath /\ req[w.task].path # HealthPath

\* Two requests for /health, the second sent after the first was answered; both
\* were answered by the route.
C25_Witness ==
    \E i, j \in Tasks :
        /\ i # j /\ Done(i) /\ Done(j) /\ j \in prior[i]
        /\ req[i].path = HealthPath /\ req[i] = req[j]
        /\ Calls(i, {"route"}) # {} /\ Calls(j, {"route"}) # {}
        /\ res[i] = HealthResponse /\ res[j] = HealthResponse

\* ----------------------------------------------------- rate limit claims

\* The verdicts of the limiter calls made for task i.
Verdicts(i) == {log[i][k].answer : k \in Calls(i, {"limit"})}

IsRateLimited(r) == r.status = 429 /\ r.bodyKind = "json" /\ r.error = "RATE_LIMITED"

\* The calls made for task i after the rate limiting middleware.
AfterLimit(i) == SelectSeq(log[i], LAMBDA c : c.op # "limit")

\* C26: the limiter is asked at most once per request.  The response is 429
\* RATE_LIMITED exactly when the limiter answered without success; for such a
\* request no cache call, no route and no bucket call is made and no write is
\* handed over, whatever the cache holds.  A request whose limiter call threw
\* goes on to the cache layer (to its route, for /health), and ends with the
\* response of a request for which the limiter answered success and the same
\* calls had the same outcomes.
C26_RateLimitFailOpen ==
    /\ \A i \in Tasks :
          /\ Cardinality(Calls(i, {"limit"})) <= 1
          /\ IsRateLimited(res[i]) <=> "failure" \in Verdicts(i)
          /\ res[i].status = 429 => IsRateLimited(res[i])
          /\ "failure" \in Verdicts(i)
             => /\ Done(i) /\ ~WasHit(i)
                /\ Calls(i, {"match", "route", "head", "get", "waitUntil"}) = {}
                /\ \A w \in pending : w.task # i
          /\ ( Done(i) /\ "throw" \in Verdicts(i) )
             => Calls(i, IF SkipsCache(req[i]) THEN {"route"} ELSE {"match"}) # {}
    /\ \A i, j \in Tasks :
          ( /\ Handled(i) /\ Handled(j) /\ req[i] = req[j]
            /\ "throw" \in Verdicts(i) /\ "success" \in Verdicts(j)
            /\ SameButText(AfterLimit(i), AfterLimit(j)) )
          => res[i] = res[j]

\* A request whose limiter call threw was served 200 and its response stored;
\* the same request sent again was refused by the limiter, while the cache
\* held the entry for it.
C26_Witness ==
    \E i, j \in Tasks :
        /\ i # j /\ Done(i) /\ Done(j) /\ req[i] = req[j]
        /\ Verdicts(j) = {"throw"} /\ res[j].status = 200 /\ Calls(j, {"waitUntil"}) # {}
        /\ Verdicts(i) = {"failure"} /\ IsRateLimited(res[i])
        /\ cacheKey(req[i]) \in DOMAIN cache

\* --------------------------------------------------------- fallback claims

\* C27: at most two bucket calls are made for a request.  A second call is made
\* only after a transformed call whose response was not ok, it is made without
\* options, and its response is the response of the request: tagged
\* fallback-original when the object was found, 500 STORAGE_ERROR when the call
\* threw, 404 when the key is absent.
C27_AtMostOneFallback ==
    \A i \in Tasks :
        /\ Cardinality(BucketCalls(i)) <= 2
        /\ Cardinality(BucketCalls(i)) = 2
           => /\ HasKeys(FirstBucketCall(i).options)
              /\ FirstBucketCall(i).answer # "object"
              /\ ~HasKeys(LastBucketCall(i).options)
              /\ FirstBucketCall(i).op = LastBucketCall(i).op
              /\ Handled(i)
              /\ res[i] = serveTransformedImage("fallback",
                            fetchFromR2(NoOptions, req[i].method = "HEAD", <<>>,
                                        CHOOSE a \in BucketAnswers(bucket, req[i].path, NoOptions,
                                                                   req[i].method = "HEAD", <<>>) :
                                           a.kind = LastBucketCall(i).answer)).res
              /\ CASE LastBucketCall(i).answer = "object" ->
                        Ok(res[i]) /\ res[i].transformStatus = "fallback-original"
                   [] LastBucketCall(i).answer = "throw" -> IsStorageError(res[i])
                   [] OTHER -> res[i].status = 404 /\ res[i].transformStatus = ""

\* Both attempts found no object: the 404 of the fallback is the response.
C27_Witness ==
    \E i \in Tasks :
        /\ Done(i) /\ req[i].method = "GET" /\ ~Exists(req[i])
        /\ Cardinality(BucketCalls(i)) = 2
        /\ FirstBucketCall(i).answer = "null" /\ LastBucketCall(i).answer = "null"
        /\ HasKeys(FirstBucketCall(i).options)
        /\ res[i].status = 404

\* --------------------------------------------------------- ordering claims

\* The place of a call in the order of the steps of a request.
Rank(c) ==
    CASE c.op = "limit" -> 0
      [] c.op = "match" -> 1
      [] c.op \in {"route", "parseTransformations"} -> 2
      [] c.op \in {"head", "get"} -> 3
      [] c.op = "waitUntil" -> 4

\* C28: the calls of a request are made in the order cache lookup, route (where
\* the options are resolved), bucket calls (each carrying the resolved options
\* and the parsed range), handing over of the cache write; each but the bucket
\* call is made at most once.  No bucket call is made before the cache lookup
\* and the route, and a write is handed over only when the route has returned
\* its response, which is then the request's response for good.
C28_Order ==
    \A i \in Tasks :
        /\ \A k, l \in 1..Len(log[i]) :
              k < l => /\ Rank(log[i][k]) <= Rank(log[i][l])
                       /\ Rank(log[i][k]) = Rank(log[i][l]) => Rank(log[i][k]) = 3
        /\ BucketCalls(i) # {} => Calls(i, {"match"}) # {} /\ Calls(i, {"route"}) # {}
        /\ \A k \in BucketCalls(i) :
              /\ log[i][k].options \in {NoOptions, parseTransformations(req[i].query)}
              /\ log[i][k].range \in {NoRange, parseRangeHeader(req[i].range)}
        /\ Calls(i, {"waitUntil"}) # {} => Done(i) /\ Ok(res[i])
        /\ \A w \in pending : w.task = i => w.res = [res[i] EXCEPT !.cacheStatus = "MISS"]

C28_Final ==
    \A i \in Tasks :
        Calls(i, {"waitUntil"}) # {} => res'[i] = res[i] /\ log'[i] = log[i] /\ pc'[i] = pc[i]

C28_StepOrder == [] C28_Order /\ [][C28_Final]_vars

\* A request that went through every step: lookup, route, transformed call,
\* fallback call, write handed over.
C28_Witness ==
    \E i \in Tasks :
        /\ Done(i) /\ Len(log[i]) = 5
        /\ [k \in 1..5 |-> log[i][k].op] = <<"match", "route", "get", "get", "waitUntil">>
        /\ res[i].transformStatus = "fallback-original"

\* ------------------------------------------------- range and transformation

\* C29: no bucket call made with transform options has a range, and neither
\* has the fallback call that follows one; no response is 206 and tagged
\* success or fallback-original; and fetchFromR2 itself, given transform
\* options together with the Range header of the request, asks the bucket for
\* no range and answers no 206.
C29_NoRangeWithTransform ==
    \A i \in Tasks :
        /\ \A k \in BucketCalls(i) :
              ( HasKeys(log[i][k].options) \/ HasKeys(FirstBucketCall(i).options) )
              => ~log[i][k].range.defined
        /\ ~( res[i].status = 206 /\ res[i].transformStatus \in {"success", "fallback-original"} )
        /\ res[i].transformStatus \in {"success", "fallback-original"}
           => res[i].status = 200 /\ res[i].contentRange = <<>>
        /\ req[i] # NoRequest
           => LET cfOptions == parseTransformations(W2) IN
              /\ ~FetchRange(cfOptions, req[i].range).defined
              /\ \A answer \in BucketAnswers(bucket, req[i].path, cfOptions, FALSE, req[i].range) :
                    fetchFromR2(cfOptions, FALSE, req[i].range, answer).status # 206

\* A transformed GET was served: the get had options and no range, and the
\* response is the whole object, 200, tagged success.
C29_Witness ==
    \E i \in Tasks :
        /\ Done(i) /\ req[i].method = "GET" /\ Exists(req[i])
        /\ Cardinality(BucketCalls(i)) = 1
        /\ HasKeys(FirstBucketCall(i).options) /\ ~FirstBucketCall(i).range.defined
        /\ res[i].status = 200 /\ res[i].transformStatus = "success"
        /\ res[i].body = bucket[KeyOf(req[i])].body /\ Len(res[i].body) >= 2

\* ---------------------------------------------------------- liveness claims

WritePending(i) == \E w \in pending : w.task = i

\* C30: for a request that missed and got an ok response from the route a
\* cache write is handed over; the request is finished, its response made,
\* while the write is pending; the pending write does settle; and once it has
\* settled the cache holds the response under the request's key, unless the
\* write failed, in which case the cache is as it was.
C30_Scheduled ==
    \A i \in Tasks :
        /\ ( Done(i) /\ Missed(i) /\ Ok(res[i]) ) <=> Calls(i, {"waitUntil"}) # {}
        /\ WritePending(i)
           => /\ Done(i) /\ Ok(res[i]) /\ Calls(i, {"waitUntil"}) # {}
              /\ cacheKey(req[i]) \notin DOMAIN cache
        /\ ( Calls(i, {"waitUntil"}) # {} /\ ~WritePending(i) /\ cache # <<>> )
           => /\ DOMAIN cache = {cacheKey(req[i])}
              /\ cache[cacheKey(req[i])].res = [res[i] EXCEPT !.cacheStatus = "MISS"]

C30_Settles ==
    \A i \in Tasks :
        WritePending(i)
        ~> ( /\ ~WritePending(i) /\ Done(i)
             /\ cache = <<>> \/ cacheKey(req[i]) \in DOMAIN cache )

C30_BackgroundWrite == [] C30_Scheduled /\ C30_Settles

\* The response of a range request is made and the request finished while its
\* write is pending and the cache is empty.
C30_Witness ==
    \E i \in Tasks :
        /\ Done(i) /\ WritePending(i) /\ cache = <<>>
        /\ res[i].status = 206 /\ res[i].bodyKind = "bytes" /\ res[i].cacheStatus = ""

\* ------------------------------------------------------ open-ended ranges

\* C31: for an object of N bytes, an untransformed GET with Range: bytes=s-,
\* 0 <= s < N, asks the bucket for the range with offset s and no length and is
\* answered 206 with Content-Range bytes s-(N-1)/N and exactly the N-s bytes
\* from position s to the end.
C31_OpenRangeServedToEnd ==
    \A i \in Tasks : PlainGetServed(i) => \A s \in 0..MaxSize :
        LET N == bucket[KeyOf(req[i])].size IN
        ( s < N /\ req[i].range = RangeOpen(s) )
        => /\ parseRangeHeader(req[i].range) =
                [defined |-> TRUE, offset |-> s, hasLength |-> FALSE, length |-> 0]
           /\ LastBucketCall(i).range = parseRangeHeader(req[i].range)
           /\ res[i].status = 206
           /\ res[i].contentRange = <<s, N - 1, N>>
           /\ res[i].bodyKind = "bytes"
           /\ Len(res[i].body) = N - s
           /\ \A k \in 1..(N - s) : res[i].body[k] = bucket[KeyOf(req[i])].body[s + k]

C31_Witness ==
    \E i \in Tasks :
        /\ Done(i) /\ PlainGetServed(i) /\ req[i].range = RangeOpen(2)
        /\ bucket[KeyOf(req[i])].size = MaxSize
        /\ ~LastBucketCall(i).range.hasLength
        /\ res[i].status = 206 /\ res[i].contentRange = <<2, MaxSize - 1, MaxSize>>
        /\ Len(res[i].body) = MaxSize - 2

\* ------------------------------------------------------ cache entry claims

\* C32 (as claimed): a GET that is served a hit gets a response that was stored
\* by a GET, with the bytes of the object as its body, never the bodyless
\* response made for a HEAD.
C32_GetHitHasBody ==
    \A i \in Tasks :
        ( Done(i) /\ WasHit(i) /\ req[i].method = "GET" )
        => /\ hitFrom[i].method # "HEAD"
           /\ res[i].bodyKind = "bytes"
           /\ Exists(req[i]) => Len(res[i].body) > 0

\* ------------------------------------------------ middleware fault claims

\* The statements of the cache middleware after next() threw for task i.
FaultAfterNext(i) == Calls(i, {"next"}) # {}

LookupFaulted(i) == \E k \in Calls(i, {"match"}) : log[i][k].answer = "throw"

\* C34: when cache.match throws, the route still runs, once, and after the
\* lookup; the request ends with the response the route made, with its status
\* (200 or 206 for a found object, 404 for an absent key, 500 for a bucket
\* fault, 400 for a Range header with transform options), untagged by the
\* cache; and no cache write is handed over for the request.
C34_LookupFaultServed ==
    \A i \in Tasks :
        LookupFaulted(i)
        => /\ ~WasHit(i)
           /\ Calls(i, {"waitUntil"}) = {}
           /\ \A w \in pending : w.task # i
           /\ cache = <<>>
           /\ Handled(i)
              => /\ Cardinality(Calls(i, {"route"})) = 1
                 /\ \A k \in Calls(i, {"route"}) : \A l \in Calls(i, {"match"}) : l < k
                 /\ res[i].cacheStatus = ""
                 /\ IF BucketCalls(i) = {} THEN res[i] = RangeNotSupported
                    ELSE CASE LastBucketCall(i).answer = "object" ->
                                /\ res[i].status \in {200, 206}
                                /\ res[i].etag = bucket[KeyOf(req[i])].httpEtag
                           [] LastBucketCall(i).answer = "null" -> res[i] = NotFoundText
                           [] OTHER -> res[i] = StorageError

\* cache.match threw, the route served the range, and the request is finished
\* with nothing handed to the cache.
C34_Witness ==
    \E i \in Tasks :
        /\ Done(i) /\ LookupFaulted(i) /\ req[i].method = "GET"
        /\ res[i].status = 206 /\ res[i].bodyKind = "bytes" /\ Len(res[i].body) = 2
        /\ pending = {} /\ cache = <<>>

\* ---------------------------------------------------- Content-Range claims

\* C35 (as claimed): every 206 response has a Content-Range bytes
\* start-end/total with total the size of the object and
\* 0 <= start <= end <= total-1, whatever the Range header and whatever range
\* the bucket reports; and a response with another status has no Content-Range.
C35_ContentRangeValid ==
    \A i \in Tasks :
        Handled(i)
        => IF res[i].status = 206
           THEN /\ Exists(req[i])
                /\ Len(res[i].contentRange) = 3
                /\ res[i].contentRange[3] = bucket[KeyOf(req[i])].size
                /\ 0 <= res[i].contentRange[1]
                /\ res[i].contentRange[1] <= res[i].contentRange[2]
                /\ res[i].contentRange[2] <= res[i].contentRange[3] - 1
           ELSE res[i].contentRange = <<>>

\* ------------------------------------------------ X-Transform-Status claims

\* C36 (as claimed): a response tagged X-Transform-Status fallback-original
\* is a 2xx response of the untransformed object, a GET's having the object's
\* bytes as its body; and a response with status >= 400 is tagged neither
\* fallback-original nor success.
C36_FallbackTagOnOriginal ==
    \A i \in Tasks :
        Handled(i)
        => /\ res[i].transformStatus = "fallback-original"
              => /\ Ok(res[i])
                 /\ Exists(req[i])
                 /\ res[i].cf = NoOptions
                 /\ req[i].method = "GET"
                    => /\ res[i].bodyKind = "bytes"
                       /\ res[i].body = bucket[KeyOf(req[i])].body
           /\ res[i].status >= 400 => res[i].transformStatus = ""

\* ------------------------------------------------- transform path claims

\* A raw value that is no integer in lo..hi: empty, not a number, fractional,
\* with a unit, out of range.
NoIntegerIn(raw, lo, hi) ==
    ~( IntegerText(raw) /\ IntegerValue(raw) >= lo /\ IntegerValue(raw) <= hi )

\* Every value the query supplies for a recognized parameter is invalid or empty.
EveryValueInvalid(query) ==
    /\ "w" \in DOMAIN query => NoIntegerIn(query["w"], 1, 4096)
    /\ "h" \in DOMAIN query => NoIntegerIn(query["h"], 1, 4096)
    /\ "q" \in DOMAIN query => NoIntegerIn(query["q"], 1, 100)
    /\ "fit" \in DOMAIN query =>
         query["fit"] \notin { <<"s","c","a","l","e","-","d","o","w","n">>,
                               <<"c","o","n","t","a","i","n">>, <<"c","o","v","e","r">>,
                               <<"c","r","o","p">>, <<"p","a","d">> }
    /\ "f" \in DOMAIN query =>
         toLowerCase(query["f"]) \notin { <<"w","e","b","p">>, <<"a","v","i","f">>,
                                          <<"j","p","e","g">>, <<"p","n","g">> }

\* The only recognized parameter of the query is f, with an unsupported format.
LoneUnsupportedFormat(query) ==
    DOMAIN query \cap TransformParams = {"f"} /\ UnsupportedFormat(query)

\* C37 (as claimed): on an image path, a query that has a recognized parameter
\* and only invalid or empty values for them resolves to {quality: 85}, not to
\* none, unless it is a lone unsupported f, which resolves to none; the request
\* with {quality: 85} is answered 400 when it has a Range header, and otherwise
\* the object the bucket returns is delivered tagged success.
C37_PresenceMeansTransform ==
    \A i \in Tasks :
        ( WasResolved(i) /\ IsImagePath(req[i]) /\ HasTransformParam(req[i])
          /\ EveryValueInvalid(req[i].query) )
        => IF LoneUnsupportedFormat(req[i].query)
           THEN Resolved(i).isNull
           ELSE /\ ~Resolved(i).isNull
                /\ Resolved(i).options = ("quality" :> 85)
                /\ ( Handled(i) /\ req[i].range # <<>> ) => res[i] = RangeNotSupported
                /\ ( Handled(i) /\ req[i].range = <<>> /\ BucketCalls(i) # {}
                     /\ FirstBucketCall(i).answer = "object" )
                   => res[i].status = 200 /\ res[i].transformStatus = "success"

====
